---- MODULE Spec2Model ----
(***************************************************************************)
(* The upload/process controller of pdf2pps_frontend/src/App.tsx: the six  *)
(* React state variables of App, the handlers handleFileChange,            *)
(* handleUpload (an async function, modelled block by block between its    *)
(* awaits) and handleDownload, and the two controls that invoke them.      *)
(*                                                                         *)
(* A nullable value of the source (T | null) is the empty sequence for     *)
(* null and the one-element sequence <<v>> for a value v.                  *)
(***************************************************************************)
EXTENDS Naturals, Sequences, FiniteSets, TLC

\* ------------------------------------------------------------------ bounds
\* Invocations of handleUpload that can be suspended at an await at one time.
MaxInFlight == 2

\* ------------------------------------------------------- source constants
API_URL == "http://localhost:8000"
PDF_TYPE == "application/pdf"
MsgNotPdf == "Please select a PDF file"
MsgNoFile == "Please select a file first"
MsgUnknown == "An unknown error occurred"
UploadFailedPrefix == "Upload failed: "
ProcessingFailedPrefix == "Processing failed: "

Null == << >>
Some(v) == << v >>

\* JavaScript truthiness of a value of type string | null.
Truthy(s) == s # Null /\ s[1] # ""

\* ------------------------------------------------------------ environment
\* Files the user can pick in the file dialog (File.name, File.type).
ReportPdf == [name |-> "report.pdf", type |-> PDF_TYPE]
NotesPdf == [name |-> "notes.pdf", type |-> PDF_TYPE]
PhotoPng == [name |-> "photo.png", type |-> "image/png"]
UntypedPdf == [name |-> "scan.pdf", type |-> ""]
UserFiles == {ReportPdf, NotesPdf, PhotoPng, UntypedPdf}
\* e.target.files of a change event: empty when the dialog is cancelled.
FileLists == {<< >>} \cup {<<f>> : f \in UserFiles}

\* What a fetch promise settles to: a Response (ok, statusText) or a rejection.
OkResponse == [ok |-> TRUE, statusText |-> "OK"]
ErrorResponses ==
  {[ok |-> FALSE, statusText |-> "Internal Server Error"],
   [ok |-> FALSE, statusText |-> ""]}
Responses == {OkResponse} \cup ErrorResponses
\* A thrown value: an Error instance with its message, or any other value.
NetworkError == [isError |-> TRUE, message |-> "Failed to fetch"]
NonErrorThrow == [isError |-> FALSE, message |-> ""]
JsonSyntaxError == [isError |-> TRUE, message |-> "Unexpected end of JSON input"]
NullDerefError == [isError |-> TRUE, message |-> "Cannot read properties of null"]
FetchRejections == {NetworkError, NonErrorThrow}
JsonRejections == {JsonSyntaxError}

\* What Response.json() settles to: a parsed value or a rejection.
Deck1 == << [title |-> "Intro", content |-> <<"point A", "point B">>] >>
Deck2 == << [title |-> "Summary", content |-> <<"point C">>],
            [title |-> "Outlook", content |-> << >>] >>
UploadBodies == {Some([filename |-> "abc123"]), Some([filename |-> "def456"]), Null}
ProcessBodies ==
  {Some([filename |-> "abc123.pptx", slides |-> Deck1]),
   Some([filename |-> "def456.pptx", slides |-> Deck2]),
   Null}

\* ------------------------------------------------------------------ state
VARIABLES
  file,            \* useState<File | null>
  uploading,       \* useState(false)
  processing,      \* useState(false)
  error,           \* useState<string | null>
  presentationId,  \* useState<string | null>
  slides,          \* useState<any[]>
  calls,           \* the invocations of handleUpload suspended at an await
  pending,         \* fetch requests issued whose response is not yet consumed or failed
  sent,            \* the fetch call made by the last step, if any
  opened,          \* the window.open call made by the last step, if any
  written,         \* setPresentationId and setSlides calls made by the last step
  lastOp           \* the event or continuation that ran last, with its input

vars == <<file, uploading, processing, error, presentationId, slides,
          calls, pending, sent, opened, written, lastOp>>

Slots == 1..MaxInFlight

\* A slot holding no invocation; pc is the await an invocation is suspended at.
NoCall == [pc |-> "none", fileId |-> Null]
NoWrites == [presentationId |-> 0, slides |-> 0]

\* kind: "event" (a control's event, arg its input), "rejected" (a promise
\* rejected with arg), "response" (fetch resolved to arg), "data" (json() resolved
\* to arg).
Op(name, slot, kind, arg) == [op |-> name, slot |-> slot, kind |-> kind, arg |-> arg]

Init ==
  /\ file = Null
  /\ uploading = FALSE
  /\ processing = FALSE
  /\ error = Null
  /\ presentationId = Null
  /\ slides = << >>
  /\ calls = [a \in Slots |-> NoCall]
  /\ pending = {}
  /\ sent = Null
  /\ opened = Null
  /\ written = NoWrites
  /\ lastOp = Op("init", 0, "event", Null)

\* ------------------------------------------------------------ conversions
UploadUrl == API_URL \o "/upload-pdf/"
ProcessUrl == API_URL \o "/process-pdf/"
DownloadUrl(id) == API_URL \o "/download/" \o id
\* JSON.stringify({ filename: fileId })
ProcessRequestBody(fileId) == "{\"filename\":\"" \o fileId \o "\"}"
UploadFailed(resp) == [isError |-> TRUE, message |-> UploadFailedPrefix \o resp.statusText]
ProcessingFailed(resp) ==
  [isError |-> TRUE, message |-> ProcessingFailedPrefix \o resp.statusText]
\* err instanceof Error ? err.message : 'An unknown error occurred'
ErrorText(err) == IF err.isError THEN err.message ELSE MsgUnknown

\* ----------------------------------------------------------------- render
\* The convert button disabled only while no file is selected.
ConvertDisabled_FileOnly == file = Null

\* disabled={!file || uploading || processing} of the convert button.
ConvertDisabled == file = Null \/ uploading \/ processing
\* disabled={!presentationId} of the download button.
DownloadDisabled == ~Truthy(presentationId)

\* --------------------------------------------------------------- handlers
\* handleFileChange storing the file before it checks the type.
handleFileChange_StoresFirst ==
  \E files \in FileLists :
    /\ lastOp' = Op("handleFileChange", 0, "event",
                   IF files = << >> THEN Null ELSE Some(files[1].type))
    /\ IF files # << >>
       THEN /\ file' = Some(files[1])
            /\ error' = IF files[1].type # PDF_TYPE THEN Some(MsgNotPdf) ELSE Null
       ELSE UNCHANGED <<file, error>>
    /\ sent' = Null
    /\ opened' = Null
    /\ written' = NoWrites
    /\ UNCHANGED <<uploading, processing, presentationId, slides, calls, pending>>

handleFileChange ==
  \E files \in FileLists :
    /\ lastOp' = Op("handleFileChange", 0, "event",
                   IF files = << >> THEN Null ELSE Some(files[1].type))
    /\ IF files # << >>
       THEN IF files[1].type # PDF_TYPE
            THEN /\ error' = Some(MsgNotPdf)
                 /\ UNCHANGED file
            ELSE /\ file' = Some(files[1])
                 /\ error' = Null
       ELSE UNCHANGED <<file, error>>
    /\ sent' = Null
    /\ opened' = Null
    /\ written' = NoWrites
    /\ UNCHANGED <<uploading, processing, presentationId, slides, calls, pending>>

\* The catch block without setProcessing(false).
Catch_KeepsProcessing(a, err) ==
  /\ error' = Some(ErrorText(err))
  /\ uploading' = FALSE
  /\ calls' = [calls EXCEPT ![a] = NoCall]
  /\ sent' = Null
  /\ written' = NoWrites
  /\ UNCHANGED <<file, processing, presentationId, slides>>

\* The catch block of handleUpload, entered by the invocation in slot a with err;
\* the invocation returns.
Catch(a, err) ==
  /\ error' = Some(ErrorText(err))
  /\ uploading' = FALSE
  /\ processing' = FALSE
  /\ calls' = [calls EXCEPT ![a] = NoCall]
  /\ sent' = Null
  /\ written' = NoWrites
  /\ UNCHANGED <<file, presentationId, slides>>

\* handleUpload setting the error for a missing file without returning.
handleUpload_NoReturn ==
  /\ opened' = Null
  /\ written' = NoWrites
  /\ \E a \in Slots :
       /\ calls[a].pc = "none"
       /\ \A b \in Slots : b < a => calls[b].pc # "none"
       /\ uploading' = TRUE
       /\ error' = Null
       /\ calls' = [calls EXCEPT ![a].pc = "awaitUpload"]
       /\ pending' = pending \cup {[slot |-> a, url |-> UploadUrl]}
       /\ sent' = Some([slot |-> a, url |-> UploadUrl,
                        body |-> IF file = Null THEN "null" ELSE file[1].name])
       /\ lastOp' = Op("handleUpload", IF file = Null THEN 0 ELSE a, "event", file)
       /\ UNCHANGED <<file, processing, presentationId, slides>>

\* handleUpload up to its first await.
handleUpload ==
  /\ opened' = Null
  /\ written' = NoWrites
  /\ IF file = Null
     THEN /\ error' = Some(MsgNoFile)
          /\ sent' = Null
          /\ lastOp' = Op("handleUpload", 0, "event", Null)
          /\ UNCHANGED <<file, uploading, processing, presentationId, slides,
                         calls, pending>>
     ELSE \E a \in Slots :
            /\ calls[a].pc = "none"
            /\ \A b \in Slots : b < a => calls[b].pc # "none"
            /\ uploading' = TRUE
            /\ error' = Null
            /\ calls' = [calls EXCEPT ![a].pc = "awaitUpload"]
            /\ pending' = pending \cup {[slot |-> a, url |-> UploadUrl]}
            /\ sent' = Some([slot |-> a, url |-> UploadUrl, body |-> file[1].name])
            /\ lastOp' = Op("handleUpload", a, "event", file)
            /\ UNCHANGED <<file, processing, presentationId, slides>>

\* The upload fetch settling without the test of uploadResponse.ok.
uploadFetchSettles_IgnoresStatus ==
  \E a \in Slots :
    /\ calls[a].pc = "awaitUpload"
    /\ opened' = Null
    /\ \/ \E err \in FetchRejections :
            /\ lastOp' = Op("uploadFetchSettles", a, "rejected", err)
            /\ pending' = pending \ {[slot |-> a, url |-> UploadUrl]}
            /\ Catch(a, err)
       \/ \E resp \in Responses :
            /\ lastOp' = Op("uploadFetchSettles", a, "response", resp)
            /\ calls' = [calls EXCEPT ![a].pc = "awaitUploadJson"]
            /\ sent' = Null
            /\ written' = NoWrites
            /\ UNCHANGED <<file, uploading, processing, error,
                           presentationId, slides, pending>>

\* The upload fetch settles: lines 49-56, to the await of uploadResponse.json().
uploadFetchSettles ==
  \E a \in Slots :
    /\ calls[a].pc = "awaitUpload"
    /\ opened' = Null
    /\ \/ \E err \in FetchRejections :
            /\ lastOp' = Op("uploadFetchSettles", a, "rejected", err)
            /\ pending' = pending \ {[slot |-> a, url |-> UploadUrl]}
            /\ Catch(a, err)
       \/ \E resp \in Responses :
            /\ lastOp' = Op("uploadFetchSettles", a, "response", resp)
            /\ IF ~resp.ok
               THEN /\ pending' = pending \ {[slot |-> a, url |-> UploadUrl]}
                    /\ Catch(a, UploadFailed(resp))
               ELSE /\ calls' = [calls EXCEPT ![a].pc = "awaitUploadJson"]
                    /\ sent' = Null
                    /\ written' = NoWrites
                    /\ UNCHANGED <<file, uploading, processing, error,
                                   presentationId, slides, pending>>

\* uploadResponse.json() settles: lines 58-71, to the await of the process fetch.
uploadJsonSettles ==
  \E a \in Slots :
    /\ calls[a].pc = "awaitUploadJson"
    /\ opened' = Null
    /\ \/ \E err \in JsonRejections :
            /\ lastOp' = Op("uploadJsonSettles", a, "rejected", err)
            /\ pending' = pending \ {[slot |-> a, url |-> UploadUrl]}
            /\ Catch(a, err)
       \/ \E uploadData \in UploadBodies :
            /\ lastOp' = Op("uploadJsonSettles", a, "data", uploadData)
            /\ IF uploadData = Null
               THEN /\ pending' = pending \ {[slot |-> a, url |-> UploadUrl]}
                    /\ Catch(a, NullDerefError)
               ELSE /\ uploading' = FALSE
                    /\ processing' = TRUE
                    /\ calls' = [calls EXCEPT
                                   ![a].pc = "awaitProcess",
                                   ![a].fileId = Some(uploadData[1].filename)]
                    /\ pending' = (pending \ {[slot |-> a, url |-> UploadUrl]})
                                    \cup {[slot |-> a, url |-> ProcessUrl]}
                    /\ sent' = Some([slot |-> a, url |-> ProcessUrl,
                                     body |-> ProcessRequestBody(uploadData[1].filename)])
                    /\ written' = NoWrites
                    /\ UNCHANGED <<file, error, presentationId, slides>>

\* The process fetch settles: lines 65-75, to the await of processResponse.json().
processFetchSettles ==
  \E a \in Slots :
    /\ calls[a].pc = "awaitProcess"
    /\ opened' = Null
    /\ \/ \E err \in FetchRejections :
            /\ lastOp' = Op("processFetchSettles", a, "rejected", err)
            /\ pending' = pending \ {[slot |-> a, url |-> ProcessUrl]}
            /\ Catch(a, err)
       \/ \E resp \in Responses :
            /\ lastOp' = Op("processFetchSettles", a, "response", resp)
            /\ IF ~resp.ok
               THEN /\ pending' = pending \ {[slot |-> a, url |-> ProcessUrl]}
                    /\ Catch(a, ProcessingFailed(resp))
               ELSE /\ calls' = [calls EXCEPT ![a].pc = "awaitProcessJson"]
                    /\ sent' = Null
                    /\ written' = NoWrites
                    /\ UNCHANGED <<file, uploading, processing, error,
                                   presentationId, slides, pending>>

\* processResponse.json() settling with the identifier taken from the upload
\* response (fileId) instead of the process response.
processJsonSettles_UsesFileId ==
  \E a \in Slots :
    /\ calls[a].pc = "awaitProcessJson"
    /\ opened' = Null
    /\ pending' = pending \ {[slot |-> a, url |-> ProcessUrl]}
    /\ \/ \E err \in JsonRejections :
            /\ lastOp' = Op("processJsonSettles", a, "rejected", err)
            /\ Catch(a, err)
       \/ \E processData \in ProcessBodies :
            /\ lastOp' = Op("processJsonSettles", a, "data", processData)
            /\ IF processData = Null
               THEN Catch(a, NullDerefError)
               ELSE /\ presentationId' = calls[a].fileId
                    /\ slides' = processData[1].slides
                    /\ processing' = FALSE
                    /\ calls' = [calls EXCEPT ![a] = NoCall]
                    /\ sent' = Null
                    /\ written' = [presentationId |-> 1, slides |-> 1]
                    /\ UNCHANGED <<file, uploading, error>>

\* processResponse.json() settles: lines 77-80, to the end of the try block;
\* the invocation returns.
processJsonSettles ==
  \E a \in Slots :
    /\ calls[a].pc = "awaitProcessJson"
    /\ opened' = Null
    /\ pending' = pending \ {[slot |-> a, url |-> ProcessUrl]}
    /\ \/ \E err \in JsonRejections :
            /\ lastOp' = Op("processJsonSettles", a, "rejected", err)
            /\ Catch(a, err)
       \/ \E processData \in ProcessBodies :
            /\ lastOp' = Op("processJsonSettles", a, "data", processData)
            /\ IF processData = Null
               THEN Catch(a, NullDerefError)
               ELSE /\ presentationId' = Some(processData[1].filename)
                    /\ slides' = processData[1].slides
                    /\ processing' = FALSE
                    /\ calls' = [calls EXCEPT ![a] = NoCall]
                    /\ sent' = Null
                    /\ written' = [presentationId |-> 1, slides |-> 1]
                    /\ UNCHANGED <<file, uploading, error>>

\* handleDownload without the test of presentationId.
handleDownload_Unguarded ==
  /\ lastOp' = Op("handleDownload", 0, "event", presentationId)
  /\ opened' = Some([url |-> DownloadUrl(IF presentationId = Null THEN "null"
                                         ELSE presentationId[1]),
                     target |-> "_blank"])
  /\ sent' = Null
  /\ written' = NoWrites
  /\ UNCHANGED <<file, uploading, processing, error, presentationId, slides,
                 calls, pending>>

handleDownload ==
  /\ lastOp' = Op("handleDownload", 0, "event", presentationId)
  /\ IF Truthy(presentationId)
     THEN opened' = Some([url |-> DownloadUrl(presentationId[1]), target |-> "_blank"])
     ELSE opened' = Null
  /\ sent' = Null
  /\ written' = NoWrites
  /\ UNCHANGED <<file, uploading, processing, error, presentationId, slides,
                 calls, pending>>

\* ---------------------------------------------------------------- controls
\* onClick of the convert button; a disabled button dispatches no click.
clickConvert == ~ConvertDisabled /\ handleUpload
\* onClick of the download button.
clickDownload == ~DownloadDisabled /\ handleDownload

\* The page as rendered: the handlers run when their controls dispatch events.
Next ==
  \/ handleFileChange
  \/ clickConvert
  \/ uploadFetchSettles
  \/ uploadJsonSettles
  \/ processFetchSettles
  \/ processJsonSettles
  \/ clickDownload

Spec == Init /\ [][Next]_vars

\* The controller's operations selectFile, submit and download called directly,
\* in any state, as a caller of the handlers can.
NextDirect ==
  \/ handleFileChange
  \/ handleUpload
  \/ uploadFetchSettles
  \/ uploadJsonSettles
  \/ processFetchSettles
  \/ processJsonSettles
  \/ handleDownload

SpecDirect == Init /\ [][NextDirect]_vars

\* ------------------------------------------------------------- properties
\* The session state of the data model, as a tuple.
session == <<file, uploading, processing, error, presentationId, slides>>

\* C1: a selectFile event whose declared type is not "application/pdf", in any
\* state (requests in flight included), leaves the selected file as it was,
\* sets the error to "Please select a PDF file" and issues no request.
C1_NonPdfSelectKeepsFile ==
  [][(/\ lastOp'.op = "handleFileChange"
      /\ lastOp'.arg # Null
      /\ lastOp'.arg[1] # "application/pdf")
     => (/\ file' = file
         /\ error' = Some("Please select a PDF file")
         /\ sent' = Null
         /\ pending' = pending)]_vars

\* A non-PDF file was just rejected while a file was selected and a request
\* was in flight.
C1_Witness ==
  /\ lastOp.op = "handleFileChange"
  /\ lastOp.arg = Some("image/png")
  /\ file = Some(ReportPdf)
  /\ pending # {}
  /\ error = Some("Please select a PDF file")

\* C2: submit() with no file selected sets the error to "Please select a file
\* first", issues no request, starts no invocation, and leaves the uploading and
\* processing flags unset.
C2_SubmitWithoutFile ==
  [][(lastOp'.op = "handleUpload" /\ file = Null)
     => (/\ error' = Some("Please select a file first")
         /\ sent' = Null
         /\ pending' = pending
         /\ calls' = calls
         /\ ~uploading /\ ~uploading'
         /\ ~processing /\ ~processing')]_vars

\* submit() just ran with no file selected and nothing in flight.
C2_Witness ==
  /\ lastOp.op = "handleUpload"
  /\ lastOp.arg = Null
  /\ file = Null
  /\ error = Some("Please select a file first")
  /\ pending = {}

\* C7: download() opens a window if and only if a presentation identifier is
\* held, at {API_BASE}/download/{id} for the identifier held; with none held it
\* opens nothing; in both cases it changes no session state, and no other step
\* opens a window.
C7_DownloadIffIdentifier ==
  [][IF lastOp'.op = "handleDownload"
     THEN /\ session' = session
          /\ IF presentationId # Null /\ presentationId # Some("")
             THEN opened' = Some([url |-> "http://localhost:8000/download/"
                                          \o presentationId[1],
                                  target |-> "_blank"])
             ELSE opened' = Null
     ELSE opened' = Null]_vars

\* download() just ran with no identifier held and opened nothing.
C7_Witness ==
  /\ lastOp.op = "handleDownload"
  /\ lastOp.arg = Null
  /\ presentationId = Null
  /\ opened = Null

\* download() just opened the presentation of the scenario of the specification.
C7_WitnessOpened ==
  /\ lastOp.op = "handleDownload"
  /\ opened = Some([url |-> "http://localhost:8000/download/abc123.pptx",
                    target |-> "_blank"])

\* A step in which an invocation of handleUpload fails: a promise rejects, a
\* response is not ok, or the parsed body is null.
FailureStep ==
  /\ lastOp'.op \in {"uploadFetchSettles", "uploadJsonSettles",
                     "processFetchSettles", "processJsonSettles"}
  /\ \/ lastOp'.kind = "rejected"
     \/ lastOp'.kind = "response" /\ ~lastOp'.arg.ok
     \/ lastOp'.kind = "data" /\ lastOp'.arg = Null

\* A step in which an invocation of handleUpload completes its try block.
SuccessStep ==
  /\ lastOp'.op = "processJsonSettles"
  /\ lastOp'.kind = "data"
  /\ lastOp'.arg # Null

Idle == \A a \in Slots : calls[a].pc = "none"

\* C3: when the upload request of a submit returns a non-success status, the
\* invocation ends there with the error "Upload failed: <status text>" and
\* sends no process request; the processing flag is unset at every moment of
\* the attempt, from the submit to the failure.
C3_UploadFailureStopsChain ==
  /\ [](\A a \in Slots :
          calls[a].pc \in {"awaitUpload", "awaitUploadJson"} => ~processing)
  /\ [][(/\ lastOp'.op = "uploadFetchSettles"
         /\ lastOp'.kind = "response"
         /\ ~lastOp'.arg.ok)
        => (/\ error' = Some("Upload failed: " \o lastOp'.arg.statusText)
            /\ sent' = Null
            /\ calls'[lastOp'.slot].pc = "none"
            /\ \A r \in pending' : r.slot # lastOp'.slot
            /\ ~processing /\ ~processing')]_vars

\* The upload of a submit just failed with status text "Internal Server Error".
C3_Witness ==
  /\ lastOp.op = "uploadFetchSettles"
  /\ lastOp.kind = "response"
  /\ lastOp.arg.statusText = "Internal Server Error"
  /\ error = Some("Upload failed: Internal Server Error")
  /\ Idle

\* C4: after a submit whose process request returns a non-success status, no
\* presentation identifier is held and the error is "Processing failed:
\* <status text>", whatever submits came before.
C4_ProcessFailureLeavesNoIdentifier ==
  (/\ lastOp.op = "processFetchSettles"
   /\ lastOp.kind = "response"
   /\ ~lastOp.arg.ok)
  => (/\ ~Truthy(presentationId)
      /\ error = Some("Processing failed: " \o lastOp.arg.statusText))

\* C5: in a submit whose upload and process both succeed, setPresentationId and
\* setSlides are each called once, in the step that consumes the process
\* response, with the filename and slides of that response (not the identifier
\* of the upload response); no other step writes either.
C5_ResultWrittenOnce ==
  [][IF SuccessStep
     THEN /\ calls[lastOp'.slot].pc = "awaitProcessJson"
          /\ written' = [presentationId |-> 1, slides |-> 1]
          /\ presentationId' = Some(lastOp'.arg[1].filename)
          /\ presentationId' # calls[lastOp'.slot].fileId
          /\ slides' = lastOp'.arg[1].slides
     ELSE /\ written' = [presentationId |-> 0, slides |-> 0]
          /\ presentationId' = presentationId
          /\ slides' = slides]_vars

\* The scenario of the specification: upload returned abc123, process returned
\* abc123.pptx with the one slide "Intro" of two bullets.
C5_Witness ==
  /\ lastOp.op = "processJsonSettles"
  /\ lastOp.kind = "data"
  /\ file = Some([name |-> "report.pdf", type |-> "application/pdf"])
  /\ presentationId = Some("abc123.pptx")
  /\ slides = << [title |-> "Intro", content |-> <<"point A", "point B">>] >>
  /\ written = [presentationId |-> 1, slides |-> 1]
  /\ ~uploading /\ ~processing /\ error = Null

\* C6: when a submit completes with both requests successful, no error message
\* is held at that moment, whatever happened while the requests were in flight.
C6_NoErrorAtReady ==
  (/\ lastOp.op = "processJsonSettles"
   /\ lastOp.kind = "data"
   /\ lastOp.arg # Null)
  => error = Null

\* C8: the session is in exactly one of idle, uploading, processing, ready,
\* errored: the two flags are never both set, no error is held while a flag is
\* set, and no error is held together with a presentation identifier and slides.
C8_OneSessionState ==
  /\ ~(uploading /\ processing)
  /\ (uploading \/ processing) => error = Null
  /\ ~(error # Null /\ presentationId # Null /\ slides # << >>)

\* C9: with the convert button disabled as rendered, at most one request is
\* outstanding and at most one invocation is suspended; a process request is sent
\* only by the invocation whose upload response was ok and has just been
\* consumed; an upload request is sent only by a submit made while nothing is
\* outstanding.
C9_RequestsSequential ==
  /\ [](Cardinality(pending) <= 1)
  /\ [](Cardinality({a \in Slots : calls[a].pc # "none"}) <= 1)
  /\ [][\A a \in Slots :
          (calls[a].pc = "awaitUpload" /\ calls'[a].pc = "awaitUploadJson")
          => (lastOp'.kind = "response" /\ lastOp'.arg.ok)]_vars
  /\ [][sent' # Null
        => IF sent'[1].url = "http://localhost:8000/process-pdf/"
           THEN /\ lastOp'.op = "uploadJsonSettles"
                /\ calls[sent'[1].slot].pc = "awaitUploadJson"
                /\ pending = {[slot |-> sent'[1].slot,
                               url |-> "http://localhost:8000/upload-pdf/"]}
                /\ pending' = {[slot |-> sent'[1].slot, url |-> sent'[1].url]}
           ELSE /\ sent'[1].url = "http://localhost:8000/upload-pdf/"
                /\ lastOp'.op = "handleUpload"
                /\ pending = {}
                /\ Idle
                /\ pending' = {[slot |-> sent'[1].slot, url |-> sent'[1].url]}]_vars

\* The process request of the scenario was just sent, alone, after its upload.
C9_Witness ==
  /\ lastOp.op = "uploadJsonSettles"
  /\ sent = Some([slot |-> 1, url |-> "http://localhost:8000/process-pdf/",
                  body |-> "{\"filename\":\"abc123\"}"])
  /\ pending = {[slot |-> 1, url |-> "http://localhost:8000/process-pdf/"]}
  /\ processing /\ ~uploading

\* C10: when either request of a submit fails (non-success status, rejection,
\* or a body that cannot be read), the attempt ends holding an error message (the
\* failure's message, or "An unknown error occurred" for a failure that is not an
\* Error), with both flags unset and nothing outstanding; the next request is
\* sent only by a new submit.
C10_FailureEndsAttempt ==
  /\ [][FailureStep
        => (/\ error' # Null
            /\ error'[1] # ""
            /\ lastOp'.kind = "rejected" =>
                 error' = Some(IF lastOp'.arg.isError THEN lastOp'.arg.message
                               ELSE "An unknown error occurred")
            /\ lastOp'.kind = "response" =>
                 error' = Some((IF lastOp'.op = "uploadFetchSettles"
                                THEN "Upload failed: "
                                ELSE "Processing failed: ")
                               \o lastOp'.arg.statusText)
            /\ ~uploading'
            /\ ~processing'
            /\ sent' = Null
            /\ pending' = {}
            /\ Idle')]_vars
  /\ [][(Idle /\ sent' # Null) => lastOp'.op = "handleUpload"]_vars

\* A process fetch was just rejected with a value that is not an Error.
C10_Witness ==
  /\ lastOp.op = "processFetchSettles"
  /\ lastOp.kind = "rejected"
  /\ ~lastOp.arg.isError
  /\ error = Some("An unknown error occurred")
  /\ ~uploading /\ ~processing /\ pending = {}

====
